---- MODULE Spec2Model ----
\* A model of lld's ELF/GdbIndex.cpp: the .gdb_index symbol hash table
\* (GdbHashTab::add, GdbHashTab::finalizeContents) and the relocation lookup
\* of the DWARF object wrapper (LLDDwarfObj::find, LLDDwarfObj::findAux).
EXTENDS Integers, Sequences, FiniteSets, TLC

VARIABLES
    Map,            \* GdbHashTab::Map     : name offset -> GdbSymbol* (an index of Syms)
    Syms,           \* the arena of make<GdbSymbol>: GdbSymbol* p is Syms[p], 0 is nullptr
    Table,          \* GdbHashTab::Table   : slot i of the C++ vector is Table[i + 1]
    pc,             \* "idle", or the position inside finalizeContents
    loc,            \* the locals of finalizeContents: Mask, Sym, I, Step
    todo,           \* the keys of Map the range-for of finalizeContents has not visited
    ret,            \* what the most recent call returned
    lastAdd,        \* history: the arguments of the most recent add call
    firstAdd,       \* history: per key, the hash and the result of its first add
    finalizeCalls,  \* history: how many times finalizeContents was called
    preFinalCount,  \* history: the number of symbols when finalizeContents first ran
    Obj,            \* the object file read by LLDDwarfObj
    res,            \* per typed debug section, the most recent find and what it returned
    entryCount,     \* Map.size() handed to the sizing expression
    sizeOut         \* the Size that expression produced, 0 before it ran

htVars == <<Map, Syms, Table, pc, loc, todo, ret, lastAdd, firstAdd,
            finalizeCalls, preFinalCount>>
objVars == <<Obj, res>>
sizeVars == <<entryCount, sizeOut>>
vars == <<Map, Syms, Table, pc, loc, todo, ret, lastAdd, firstAdd,
          finalizeCalls, preFinalCount, Obj, res, entryCount, sizeOut>>

-----------------------------------------------------------------------------
\* Bounds of the model.

\* name offsets (keys of Map) are 1..MaxKey
MaxKey == 3
\* finalizeContents is called at most this often
MaxFinalize == 2
\* entry counts handed to the sizing expression are 0..MaxN
MaxN == 2000
\* .debug_info carries at most this many relocation records
MaxInfoRelocs == 2
\* .debug_ranges carries at most this many relocation records
MaxRangeRelocs == 1

-----------------------------------------------------------------------------
\* Machine integers.  TLC's integers are 32 bit signed, so a uint32_t is a
\* pair <<high 16 bits, low 16 bits>> and a uint64_t is four 16 bit limbs,
\* least significant first.

Limb == 65536

RECURSIVE BitAnd(_, _)
BitAnd(a, b) ==
    IF a = 0 \/ b = 0 THEN 0
    ELSE (a % 2) * (b % 2) + 2 * BitAnd(a \div 2, b \div 2)

RECURSIVE BitOr(_, _)
BitOr(a, b) ==
    IF a = 0 THEN b
    ELSE IF b = 0 THEN a
    ELSE (IF a % 2 = 1 \/ b % 2 = 1 THEN 1 ELSE 0) + 2 * BitOr(a \div 2, b \div 2)

RECURSIVE ShiftRight(_, _)
ShiftRight(a, k) == IF k = 0 THEN a ELSE ShiftRight(a \div 2, k - 1)

\* uint32_t * small constant, modulo 2^32
Mul32(h, m) ==
    LET lo == h[2] * m
    IN  <<(h[1] * m + lo \div Limb) % Limb, lo % Limb>>

\* uint32_t & mask, for a mask below 2^31
And32(h, mask) ==
    BitAnd(h[2], mask % Limb) + Limb * BitAnd(h[1], mask \div Limb)

\* uint64_t + uint64_t, modulo 2^64
Add64(a, b) ==
    LET s1 == a[1] + b[1]
        s2 == a[2] + b[2] + s1 \div Limb
        s3 == a[3] + b[3] + s2 \div Limb
        s4 == a[4] + b[4] + s3 \div Limb
    IN  <<s1 % Limb, s2 % Limb, s3 % Limb, s4 % Limb>>

\* the conversion of an int64_t (here of less than 31 bits) to uint64_t
ToU64(x) ==
    IF x >= 0 THEN <<x % Limb, x \div Limb, 0, 0>>
    ELSE LET y == (-x) - 1
         IN  <<(Limb - 1) - (y % Limb), (Limb - 1) - (y \div Limb), Limb - 1, Limb - 1>>

-----------------------------------------------------------------------------
\* GdbHashTab

NullSym == 0

\* the name hashes the DWARF scanner hands to add: 0, 1024, 0xFFFFFFFF
Hashes == { <<0, 0>>, <<0, 1024>>, <<65535, 65535>> }
Keys == 1 .. MaxKey

MinTableSize == 1024
HashMultiplier == 17

\* A |= (A >> 1); ... A |= (A >> 32): every bit below the highest set bit is set
Smear(A) ==
    LET a1 == BitOr(A, ShiftRight(A, 1))
        a2 == BitOr(a1, ShiftRight(a1, 2))
        a3 == BitOr(a2, ShiftRight(a2, 4))
        a4 == BitOr(a3, ShiftRight(a3, 8))
        a5 == BitOr(a4, ShiftRight(a4, 16))
    IN  BitOr(a5, ShiftRight(a5, 32))

\* a power of two that is merely not below A
NextPowerOf2_inclusive(A) == IF A = 0 THEN 1 ELSE Smear(A - 1) + 1

\* llvm::NextPowerOf2(uint64_t A): the power of two strictly greater than A
NextPowerOf2(A) == Smear(A) + 1

Max(a, b) == IF a < b THEN b ELSE a

\* the sizing without the format's minimum
TableSize_nomin(n) == NextPowerOf2((n * 4) \div 3)

\* uint32_t Size = std::max<uint32_t>(1024, NextPowerOf2(Map.size() * 4 / 3));
TableSize(n) == Max(MinTableSize, NextPowerOf2((n * 4) \div 3))

\* Table.resize(Size): keeps the elements already there, appends nullptr
Resize(T, Size) == [i \in 1 .. Size |-> IF i <= Len(T) THEN T[i] ELSE NullSym]

\* uint32_t I = Sym->NameHash & Mask;
InitialSlot(hash, Mask) == And32(hash, Mask)

\* a step with the multiplier off by one
ProbeStep_mul16(hash, Mask) == BitOr(And32(Mul32(hash, HashMultiplier - 1), Mask), 1)

\* a step that is not forced odd
ProbeStep_even(hash, Mask) == And32(Mul32(hash, HashMultiplier), Mask)

\* uint32_t Step = ((Sym->NameHash * 17) & Mask) | 1;
ProbeStep(hash, Mask) == BitOr(And32(Mul32(hash, HashMultiplier), Mask), 1)

\* a test that never sees a slot as taken
SlotTaken_never(T, I) == FALSE

\* while (Table[I])
SlotTaken(T, I) == T[I + 1] # NullSym

\* I = (I + Step) & Mask;
Advance(I, Step, Mask) == BitAnd(I + Step, Mask)

\* an add that creates a symbol on every call
add_always(M, S, Hash, Offset) ==
    LET p == Len(S) + 1
    IN  [Map  |-> [k \in DOMAIN M \cup {Offset} |-> IF k = Offset THEN p ELSE M[k]],
         Syms |-> Append(S, [NameHash |-> Hash, NameOffset |-> Offset]),
         ret  |-> <<TRUE, p>>]

\* std::pair<bool, GdbSymbol *> GdbHashTab::add(uint32_t Hash, size_t Offset)
add(M, S, Hash, Offset) ==
    IF Offset \in DOMAIN M
    THEN [Map |-> M, Syms |-> S, ret |-> <<FALSE, M[Offset]>>]
    ELSE LET p == Len(S) + 1
         IN  [Map  |-> [k \in DOMAIN M \cup {Offset} |-> IF k = Offset THEN p ELSE M[k]],
              Syms |-> Append(S, [NameHash |-> Hash, NameOffset |-> Offset]),
              ret  |-> <<TRUE, p>>]

NoLoc == [Mask |-> 0, Sym |-> NullSym, I |-> 0, Step |-> 0]
NoCall == <<>>

HtInit ==
    /\ Map = <<>>
    /\ Syms = <<>>
    /\ Table = <<>>
    /\ pc = "idle"
    /\ loc = NoLoc
    /\ todo = {}
    /\ ret = NoCall
    /\ lastAdd = NoCall
    /\ firstAdd = <<>>
    /\ finalizeCalls = 0
    /\ preFinalCount = 0

\* one call of add
AddCall ==
    /\ pc = "idle"
    /\ \E Hash \in Hashes, Offset \in Keys :
         LET r == add(Map, Syms, Hash, Offset)
         IN  /\ Map' = r.Map
             /\ Syms' = r.Syms
             /\ ret' = r.ret
             /\ lastAdd' = [hash |-> Hash, key |-> Offset,
                            seen |-> Offset \in DOMAIN firstAdd]
             /\ firstAdd' = IF Offset \in DOMAIN firstAdd THEN firstAdd
                            ELSE [k \in DOMAIN firstAdd \cup {Offset} |->
                                    IF k = Offset
                                    THEN [hash |-> Hash, sym |-> r.ret[2]]
                                    ELSE firstAdd[k]]
    /\ UNCHANGED <<Table, pc, loc, todo, finalizeCalls, preFinalCount>>
    /\ UNCHANGED <<objVars, sizeVars>>

\* finalizeContents, lines 36-38: the size, the mask, the resize
FinalizeCall ==
    /\ pc = "idle"
    /\ LET Size == TableSize(Cardinality(DOMAIN Map))
       IN  /\ Table' = Resize(Table, Size)
           /\ loc' = [NoLoc EXCEPT !.Mask = Size - 1]
    /\ todo' = DOMAIN Map
    /\ pc' = "loop"
    /\ ret' = NoCall
    /\ lastAdd' = NoCall
    /\ finalizeCalls' = finalizeCalls + 1
    /\ preFinalCount' = IF finalizeCalls = 0 THEN Len(Syms) ELSE preFinalCount
    /\ UNCHANGED <<Map, Syms, firstAdd>>
    /\ UNCHANGED <<objVars, sizeVars>>

\* lines 40-43: the range-for takes the next element of Map (in the order the
\* container yields, which the model leaves open) and sets I and Step
NextEntry ==
    /\ pc = "loop"
    /\ \E k \in todo :
         /\ todo' = todo \ {k}
         /\ loc' = [loc EXCEPT !.Sym = Map[k],
                               !.I = InitialSlot(Syms[Map[k]].NameHash, loc.Mask),
                               !.Step = ProbeStep(Syms[Map[k]].NameHash, loc.Mask)]
    /\ pc' = "probe"
    /\ UNCHANGED <<Map, Syms, Table, ret, lastAdd, firstAdd, finalizeCalls, preFinalCount>>
    /\ UNCHANGED <<objVars, sizeVars>>

\* lines 45-46: one iteration of the while loop
ProbeAdvance ==
    /\ pc = "probe"
    /\ SlotTaken(Table, loc.I)
    /\ loc' = [loc EXCEPT !.I = Advance(loc.I, loc.Step, loc.Mask)]
    /\ UNCHANGED <<Map, Syms, Table, pc, todo, ret, lastAdd, firstAdd,
                   finalizeCalls, preFinalCount>>
    /\ UNCHANGED <<objVars, sizeVars>>

\* line 47: the loop ended, Table[I] = Sym
Place ==
    /\ pc = "probe"
    /\ ~SlotTaken(Table, loc.I)
    /\ Table' = [Table EXCEPT ![loc.I + 1] = loc.Sym]
    /\ pc' = "loop"
    /\ UNCHANGED <<Map, Syms, loc, todo, ret, lastAdd, firstAdd,
                   finalizeCalls, preFinalCount>>
    /\ UNCHANGED <<objVars, sizeVars>>

\* line 49: the range-for is exhausted, finalizeContents returns
FinalizeEnd ==
    /\ pc = "loop"
    /\ todo = {}
    /\ pc' = "idle"
    /\ loc' = NoLoc
    /\ UNCHANGED <<Map, Syms, Table, todo, ret, lastAdd, firstAdd,
                   finalizeCalls, preFinalCount>>
    /\ UNCHANGED <<objVars, sizeVars>>

\* The documented protocol (all add calls, then finalizeContents once) ...
Add == finalizeCalls = 0 /\ AddCall
FinalizeBegin == finalizeCalls = 0 /\ FinalizeCall

\* ... and the calls the code accepts all the same: add after finalizeContents,
\* finalizeContents again
AddLate == finalizeCalls > 0 /\ AddCall
FinalizeAgain == finalizeCalls > 0 /\ finalizeCalls < MaxFinalize /\ FinalizeCall

FinalizeStep == NextEntry \/ ProbeAdvance \/ Place \/ FinalizeEnd

ObjIdle == Obj = <<>> /\ res = <<>>
SizeIdle == entryCount = 0 /\ sizeOut = 0

Init == HtInit /\ ObjIdle /\ SizeIdle

Next == Add \/ FinalizeBegin \/ NextEntry \/ ProbeAdvance \/ Place \/ FinalizeEnd

Spec == Init /\ [][Next]_vars

MisuseNext == Next \/ AddLate \/ FinalizeAgain

\* any order of calls
MisuseSpec == Init /\ [][MisuseNext]_vars

\* finalizeContents is straight-line sequential code: once called it keeps running
FairSpec == Spec /\ WF_vars(FinalizeStep)

-----------------------------------------------------------------------------
\* The sizing expression of finalizeContents on its own, for every entry count.

SizeInit ==
    /\ HtInit
    /\ ObjIdle
    /\ entryCount \in 0 .. MaxN
    /\ sizeOut = 0

\* line 36 with Map.size() = entryCount
ComputeSize ==
    /\ sizeOut = 0
    /\ sizeOut' = TableSize(entryCount)
    /\ UNCHANGED <<entryCount, htVars, objVars>>

SizeNext == ComputeSize

SizeSpec == SizeInit /\ [][SizeNext]_vars

-----------------------------------------------------------------------------
\* LLDDwarfObj

SHF_ALLOC == 2

\* the typed debug sections find is asked about
Handles == {"InfoSection", "RangeSection"}

\* the input sections that define symbols: [Flags, OffsetInFile]
\*   1: SHF_ALLOC | SHF_EXECINSTR, placed at 0x1000 of the output file
\*   2: SHF_MERGE | SHF_STRINGS (not loadable), placed at 0x2000
Sections ==
    <<[Flags |-> 6, OffsetInFile |-> ToU64(4096)],
      [Flags |-> 48, OffsetInFile |-> ToU64(8192)]>>

\* the symbol table: the ELF symbol (st_shndx) and its DefinedRegular body
\* (Value, Section); both symbols have the value 0x400000
Symbols ==
    <<[st_shndx |-> 1, Value |-> ToU64(4194304), Section |-> 1],
      [st_shndx |-> 2, Value |-> ToU64(4194304), Section |-> 2]>>

Offsets == {16, 32}
Addends == {4, -4}

\* Elf_Rela: the addend is a field of the record
RelaRecords == [r_offset : Offsets, r_sym : 1 .. Len(Symbols), r_addend : Addends]
\* Elf_Rel: the record has no addend; implicit is the addend stored in the
\* section's bytes at r_offset
RelRecords == [r_offset : Offsets, r_sym : 1 .. Len(Symbols), implicit : Addends]

SeqsUpTo(S, n) == UNION {[1 .. k -> S] : k \in 0 .. n}

\* an InputSectionBase with its relocations: AreRelocsRela says which of the
\* two arrays the section has
DebugSections(n) ==
    {[AreRelocsRela |-> TRUE, Relas |-> l, Rels |-> <<>>] : l \in SeqsUpTo(RelaRecords, n)}
    \cup
    {[AreRelocsRela |-> FALSE, Relas |-> <<>>, Rels |-> l] : l \in SeqsUpTo(RelRecords, n)}

None == <<>>

\* getAddend<ELFT>(Rel) for the two record types
getAddend(RelTy, Rel) == IF RelTy = "Rela" THEN Rel.r_addend ELSE Rel.implicit

\* llvm::find_if(Rels, r_offset == Pos): the first match, 0 for Rels.end()
FindIf(Rels, Pos) ==
    LET hits == {i \in 1 .. Len(Rels) : Rels[i].r_offset = Pos}
    IN  IF hits = {} THEN 0 ELSE CHOOSE i \in hits : \A j \in hits : i <= j

\* a resolution that adds the file offset whatever the section's flags
findAux_alwaysOffset(O, Pos, Rels, RelTy) ==
    LET I == FindIf(Rels, Pos)
    IN  IF I = 0 THEN None
        ELSE LET Rel == Rels[I]
                 SecIndex == O.Symbols[Rel.r_sym].st_shndx
                 DR == O.Symbols[Rel.r_sym]
                 Val == Add64(DR.Value, ToU64(getAddend(RelTy, Rel)))
             IN  <<SecIndex, Add64(Val, O.Sections[DR.Section].OffsetInFile)>>

\* a lookup that matches every record at or before Pos
findAux_atOrBefore(O, Pos, Rels, RelTy) ==
    LET hits == {i \in 1 .. Len(Rels) : Rels[i].r_offset <= Pos}
    IN  IF hits = {} THEN None
        ELSE LET Rel == Rels[CHOOSE i \in hits : \A j \in hits : i <= j]
                 DR == O.Symbols[Rel.r_sym]
                 Val == Add64(DR.Value, ToU64(getAddend(RelTy, Rel)))
             IN  <<DR.st_shndx,
                   IF BitAnd(O.Sections[DR.Section].Flags, SHF_ALLOC) # 0
                   THEN Add64(Val, O.Sections[DR.Section].OffsetInFile)
                   ELSE Val>>

\* LLDDwarfObj<ELFT>::findAux
findAux(O, Pos, Rels, RelTy) ==
    LET I == FindIf(Rels, Pos)
    IN  IF I = 0 THEN None
        ELSE LET Rel == Rels[I]
                 SecIndex == O.Symbols[Rel.r_sym].st_shndx
                 DR == O.Symbols[Rel.r_sym]
                 Val == Add64(DR.Value, ToU64(getAddend(RelTy, Rel)))
             IN  <<SecIndex,
                   IF BitAnd(O.Sections[DR.Section].Flags, SHF_ALLOC) # 0
                   THEN Add64(Val, O.Sections[DR.Section].OffsetInFile)
                   ELSE Val>>

\* a dispatch that reads the Elf_Rel array whatever the section says
find_relsOnly(O, S, Pos) == findAux(O, Pos, O.Debug[S].Rels, "Rel")

\* LLDDwarfObj<ELFT>::find
find(O, S, Pos) ==
    IF O.Debug[S].AreRelocsRela
    THEN findAux(O, Pos, O.Debug[S].Relas, "Rela")
    ELSE findAux(O, Pos, O.Debug[S].Rels, "Rel")

ObjectFiles ==
    {[Symbols |-> Symbols, Sections |-> Sections,
      Debug |-> [h \in Handles |-> IF h = "InfoSection" THEN i ELSE r]] :
        i \in DebugSections(MaxInfoRelocs), r \in DebugSections(MaxRangeRelocs)}

FindInit ==
    /\ HtInit
    /\ SizeIdle
    /\ Obj \in ObjectFiles
    /\ res = <<>>

\* one call of find; res keeps the call and what it returned
Find ==
    /\ \E S \in Handles, Pos \in Offsets :
         res' = [S |-> S, Pos |-> Pos, Out |-> find(Obj, S, Pos)]
    /\ UNCHANGED <<Obj, htVars, sizeVars>>

FindNext == Find

FindSpec == FindInit /\ [][FindNext]_vars

-----------------------------------------------------------------------------
\* Properties of GdbHashTab.

Finalized == finalizeCalls = 1 /\ pc = "idle"

SlotsOf(p) == {i \in 1 .. Len(Table) : Table[i] = p}
UsedSlots == {i \in 1 .. Len(Table) : Table[i] # NullSym}

\* the probe sequence of the index format, written from its definition
FormatStart(hash, size) == And32(hash, size - 1)
FormatStep(hash, size) == BitOr(And32(Mul32(hash, 17), size - 1), 1)

RECURSIVE FoundFrom(_, _, _, _)
FoundFrom(p, i, step, fuel) ==
    IF fuel = 0 THEN FALSE
    ELSE IF Table[i + 1] = p THEN TRUE
    ELSE IF Table[i + 1] = NullSym THEN FALSE
    ELSE FoundFrom(p, (i + step) % Len(Table), step, fuel - 1)

Replayed(p) ==
    FoundFrom(p, FormatStart(Syms[p].NameHash, Len(Table)),
              FormatStep(Syms[p].NameHash, Len(Table)), Len(Table))

\* C1: the table holds one entry per distinct key used; every key maps to the
\* entry its first add created, that entry keeps the hash of the first add, and
\* an add of a key seen before returns (false, that entry) whatever the hash.
C1_DedupFirstWins ==
    /\ Cardinality(DOMAIN Map) = Cardinality(DOMAIN firstAdd)
    /\ Len(Syms) = Cardinality(DOMAIN firstAdd)
    /\ \A k \in DOMAIN firstAdd :
         /\ k \in DOMAIN Map
         /\ Map[k] = firstAdd[k].sym
         /\ Syms[Map[k]].NameHash = firstAdd[k].hash
    /\ (lastAdd # NoCall /\ lastAdd.seen) =>
         ret = <<FALSE, firstAdd[lastAdd.key].sym>>
    /\ (lastAdd # NoCall /\ ~lastAdd.seen) =>
         ret = <<TRUE, firstAdd[lastAdd.key].sym>>

\* a key was added again with a hash other than that of its first add
C1_Witness ==
    /\ lastAdd # NoCall
    /\ lastAdd.seen
    /\ lastAdd.hash # firstAdd[lastAdd.key].hash
    /\ Cardinality(DOMAIN firstAdd) >= 2

\* C2: after the add calls and one finalizeContents, every entry occupies
\* exactly one slot and the occupied slots are as many as the entries.
C2_OneSlotEach ==
    Finalized =>
        /\ \A p \in 1 .. Len(Syms) : Cardinality(SlotsOf(p)) = 1
        /\ Cardinality(UsedSlots) = Len(Syms)

\* finalizeContents laid out entries of which two start at the same slot
C2_Witness ==
    /\ Finalized
    /\ \E p, q \in 1 .. Len(Syms) :
         /\ p # q
         /\ FormatStart(Syms[p].NameHash, Len(Table))
              = FormatStart(Syms[q].NameHash, Len(Table))

\* C3: after finalizeContents every entry is found by replaying its probe
\* sequence from hash & (size-1) with step ((hash * 17) & (size-1)) | 1 modulo
\* size, before an empty slot is met.
C3_Reachable ==
    Finalized => \A p \in 1 .. Len(Syms) : Replayed(p)

\* an entry lies two probe steps away from its first slot
C3_Witness ==
    /\ Finalized
    /\ \E p \in 1 .. Len(Syms) :
         LET s == FormatStart(Syms[p].NameHash, Len(Table))
             d == FormatStep(Syms[p].NameHash, Len(Table))
         IN  /\ Table[s + 1] # p
             /\ Table[((s + d) % Len(Table)) + 1] # p
             /\ Table[((s + 2 * d) % Len(Table)) + 1] = p

\* C6: finalizeContents, called once after the add calls, terminates.
C6_Terminates == (pc # "idle") ~> (pc = "idle")

\* finalizeContents returned after a probe that wrapped round the end of the table
C6_Witness ==
    /\ Finalized
    /\ \E p \in 1 .. Len(Syms) :
         \E i \in SlotsOf(p) : i - 1 < FormatStart(Syms[p].NameHash, Len(Table))

\* C10: once finalizeContents has run, every entry created before its first
\* run occupies exactly one slot, whatever calls followed.
C10_NeverCorrupts ==
    (finalizeCalls >= 1 /\ pc = "idle") =>
        \A p \in 1 .. preFinalCount : Cardinality(SlotsOf(p)) = 1

Pow2s == {2 ^ k : k \in 0 .. 30}
Least(S) == CHOOSE x \in S : \A y \in S : x <= y
CeilDiv(a, b) == (a + b - 1) \div b

\* C4 as stated: the size is the least power of two >= 1024 and >= ceil(4n/3).
C4_LeastAtLeastCeil ==
    sizeOut # 0 =>
        sizeOut = Least({p \in Pow2s : p >= 1024 /\ p >= CeilDiv(entryCount * 4, 3)})

\* C4 amended: the size is the least power of two that is >= 1024 and strictly
\* greater than floor(4n/3).
C4_LeastAboveFloor ==
    sizeOut # 0 =>
        sizeOut = Least({p \in Pow2s : p >= 1024 /\ p > (entryCount * 4) \div 3})

\* 768 entries: 4n/3 is the power of two 1024 and the size is 2048
C4_Witness == entryCount = 768 /\ sizeOut = 2048

\* C5: the size is a power of two, >= 1024 and >= ceil(4n/3), so the load
\* factor is at most 75%; 2000 entries give 4096.
C5_SizeBounds ==
    sizeOut # 0 =>
        /\ sizeOut \in Pow2s
        /\ sizeOut >= 1024
        /\ sizeOut >= CeilDiv(entryCount * 4, 3)
        /\ entryCount * 4 <= sizeOut * 3
        /\ (entryCount = 2000 => sizeOut = 4096)

C5_Witness == entryCount = 2000 /\ sizeOut = 4096

-----------------------------------------------------------------------------
\* Properties of LLDDwarfObj::find.

Asked == res # <<>>

\* the relocation records of the section a call was about, in the form it uses
RecordsOf(S) ==
    IF Obj.Debug[S].AreRelocsRela THEN Obj.Debug[S].Relas ELSE Obj.Debug[S].Rels

MatchesAt(S, Pos) == {i \in 1 .. Len(RecordsOf(S)) : RecordsOf(S)[i].r_offset = Pos}

\* the record a lookup at Pos meets first
FirstAt(S, Pos) == RecordsOf(S)[Least(MatchesAt(S, Pos))]

\* the addend a record carries, in its record (rela) or beside the place (rel)
EffectiveAddend(S, rec) ==
    IF Obj.Debug[S].AreRelocsRela THEN rec.r_addend ELSE rec.implicit

Loadable(sec) == (sec.Flags \div 2) % 2 = 1

Zero64 == <<0, 0, 0, 0>>

Expected(S, rec) ==
    LET sym == Obj.Symbols[rec.r_sym]
        sec == Obj.Sections[sym.Section]
    IN  <<sym.Section,
          Add64(Add64(sym.Value, ToU64(EffectiveAddend(S, rec))),
                IF Loadable(sec) THEN sec.OffsetInFile ELSE Zero64)>>

C8_NoneIffNoRecord ==
    /\ [](Asked =>
            /\ (res.Out = None) <=> (MatchesAt(res.S, res.Pos) = {})
            /\ (res.Out # None) => Len(res.Out) = 2)
    /\ [][Obj' = Obj]_vars

\* a section whose only record is at 0x20 was asked about 0x10: no relocation
C8_Witness ==
    /\ Asked
    /\ res.Pos = 16
    /\ Len(RecordsOf(res.S)) = 1
    /\ RecordsOf(res.S)[1].r_offset = 32
    /\ res.Out = None

\* the sections S and T use the two forms and both hold, at Pos, a record of
\* the same symbol with the same effective addend
SameRelocation(S, T, Pos) ==
    /\ Obj.Debug[S].AreRelocsRela # Obj.Debug[T].AreRelocsRela
    /\ MatchesAt(S, Pos) # {}
    /\ MatchesAt(T, Pos) # {}
    /\ FirstAt(S, Pos).r_sym = FirstAt(T, Pos).r_sym
    /\ EffectiveAddend(S, FirstAt(S, Pos)) = EffectiveAddend(T, FirstAt(T, Pos))

====
